---- MODULE Spec2Model ----
(***************************************************************************)
(* Model of the Polymarket best-bid bot (src/bot.py, src/config.py).       *)
(*                                                                         *)
(* One run of main() is a straight pipeline:                               *)
(*   import config -> parse_args -> Config.validate -> settings ->         *)
(*   initialize_client -> get_best_bid -> get_tick_size ->                 *)
(*   calculate_new_bid -> place_order (create_order, post_order) -> exit   *)
(*                                                                         *)
(* Numbers.  A decimal.Decimal is a pair (coef, exp) standing for          *)
(* coef * 10^exp, exactly as Decimal.as_tuple() reports it.  A decimal     *)
(* literal in a string ("0.050") is the same pair (50, -3).  A Python      *)
(* float is represented by the shortest decimal that round-trips to it,    *)
(* which is what str()/repr() print: for literals of at most 15            *)
(* significant digits float(s) followed by str() gives back s with its     *)
(* trailing zeros dropped and at least one fractional digit kept.          *)
(* Every value carries the Python type that holds it.                      *)
(***************************************************************************)
EXTENDS Integers, Sequences, FiniteSets, TLC

----------------------------------------------------------------------------
(* Bounds of the model *)

\* longest order book (number of resting bids) a read returns
MaxBids == 2

----------------------------------------------------------------------------
(* Typed values *)

None == [type |-> "NoneType"]

Dec(c, e) == [type |-> "Decimal", coef |-> c, exp |-> e]

NumStr(c, e) == [type |-> "str", numeric |-> TRUE, coef |-> c, exp |-> e]

\* a string that is not a decimal literal
BadStr == [type |-> "str", numeric |-> FALSE, coef |-> 0, exp |-> 0]

Min(a, b) == IF a <= b THEN a ELSE b

Abs(n) == IF n < 0 THEN 0 - n ELSE n

\* the integer number of 10^e units in the value d (exact when e <= d.exp)
Units(d, e) == d.coef * 10^(d.exp - e)

RECURSIVE StripZeros(_, _)
\* drop the trailing zeros of a coefficient: the shortest digits of the value
StripZeros(c, e) ==
    IF c = 0 THEN <<0, 0>>
    ELSE IF c % 10 = 0 THEN StripZeros(c \div 10, e + 1)
    ELSE <<c, e>>

\* float(x) of a decimal literal or a Decimal: the value, digits forgotten
float(x) ==
    LET n == StripZeros(x.coef, x.exp)
    IN  [type |-> "float", coef |-> n[1], exp |-> n[2]]

\* str(x) of a float: shortest repr, always with a fractional part ("5.0")
str(x) ==
    IF x.exp >= 0 THEN NumStr(x.coef * 10^(x.exp + 1), 0 - 1)
    ELSE NumStr(x.coef, x.exp)

\* decimal.Decimal(s) of a decimal literal keeps the digits and the exponent
Decimal(s) == Dec(s.coef, s.exp)

\* Decimal.__add__: exact, exponent is the smaller of the two
DecAdd(a, b) ==
    LET e == Min(a.exp, b.exp)
    IN  Dec(Units(a, e) + Units(b, e), e)

\* Decimal.quantize(q, rounding=ROUND_DOWN): same exponent as q, extra
\* digits truncated toward zero
quantize(a, q) ==
    IF a.exp >= q.exp THEN Dec(Units(a, q.exp), q.exp)
    ELSE LET p == 10^(q.exp - a.exp)
             m == Abs(a.coef) \div p
         IN  Dec(IF a.coef < 0 THEN 0 - m ELSE m, q.exp)

\* comparison of two numbers by value
Gt(a, b) == LET e == Min(a.exp, b.exp) IN Units(a, e) > Units(b, e)

Ge(a, b) == LET e == Min(a.exp, b.exp) IN Units(a, e) >= Units(b, e)

Le(a, b) == ~Gt(a, b)

Positive(a) == a.coef > 0

\* a is an integer multiple of the (non-zero) tick t
IsMultiple(a, t) == LET e == Min(a.exp, t.exp) IN Units(a, e) % Units(t, e) = 0

----------------------------------------------------------------------------
(* The bid calculator *)

\* calculate_new_bid with both ceiling checks left out
calculate_new_bid_NoCeiling(best_bid, tick_size, max_price) ==
    float(quantize(DecAdd(Decimal(str(best_bid)), tick_size), tick_size))

\* calculate_new_bid with only the second (best bid at ceiling) check
calculate_new_bid_NoCandidateCheck(best_bid, tick_size, max_price) ==
    LET best_bid_decimal == Decimal(str(best_bid))
        max_price_decimal == Decimal(str(max_price))
        new_bid == quantize(DecAdd(best_bid_decimal, tick_size), tick_size)
    IN  IF Ge(best_bid_decimal, max_price_decimal) THEN None
        ELSE float(new_bid)

\* calculate_new_bid that rounds without adding the tick
calculate_new_bid_NoTick(best_bid, tick_size, max_price) ==
    LET best_bid_decimal == Decimal(str(best_bid))
        max_price_decimal == Decimal(str(max_price))
        new_bid == quantize(best_bid_decimal, tick_size)
    IN  IF Gt(new_bid, max_price_decimal) THEN None
        ELSE IF Ge(best_bid_decimal, max_price_decimal) THEN None
        ELSE float(new_bid)

calculate_new_bid(best_bid, tick_size, max_price) ==
    LET best_bid_decimal == Decimal(str(best_bid))
        max_price_decimal == Decimal(str(max_price))
        new_bid == quantize(DecAdd(best_bid_decimal, tick_size), tick_size)
    IN  IF Gt(new_bid, max_price_decimal) THEN None
        ELSE IF Ge(best_bid_decimal, max_price_decimal) THEN None
        ELSE float(new_bid)

----------------------------------------------------------------------------
(* Inputs of a run *)

\* a local variable that has not been assigned yet
Unset == [type |-> "unbound"]

\* the float a decimal literal denotes, e.g. F(5, -2) is 0.05
F(c, e) == float(NumStr(c, e))

\* values of POLYMARKET_PRIVATE_KEY / POLYMARKET_FUNDER_ADDRESS: unset (the
\* default ""), set without the 0x prefix, set with it
EnvAddresses == { <<>>, <<"a", "b">>, <<"0", "x", "a">> }

\* values of MAX_BID_PRICE: the default 0.05, 0.003, 0 and -0.01
EnvMaxPrices == { F(5, 0 - 2), F(3, 0 - 3), F(0, 0), F(0 - 1, 0 - 2) }

\* values of ORDER_SIZE: the default 5.0, and 0
EnvSizes == { F(5, 0), F(0, 0) }

\* values of --max-price: absent, 0.05, 0.003, 0 and -0.01
ArgMaxPrices == { None, F(5, 0 - 2), F(3, 0 - 3), F(0, 0), F(0 - 1, 0 - 2) }

\* values of --size: absent, 5, 0 and -1
ArgSizes == { None, F(5, 0), F(0, 0), F(0 - 1, 0) }

\* bid.price of a resting bid: "0.002", "0.049", "0.05", "0.0495", "0.0020",
\* and a string that is no number
BidPrices ==
    { NumStr(2, 0 - 3), NumStr(49, 0 - 3), NumStr(5, 0 - 2), NumStr(495, 0 - 4),
      NumStr(20, 0 - 4), BadStr }

\* order_book.bids: every list of at most MaxBids resting bids
Books == UNION { [1..n -> BidPrices] : n \in 0..MaxBids }

\* what client.get_tick_size returns: "0.1", "0.01", "0.001", "0.0001" (the
\* venue's tick sizes), "0.005", "0.0025", "0.010", and a string that is no
\* number
TickSizeStrs ==
    { NumStr(1, 0 - 1), NumStr(1, 0 - 2), NumStr(1, 0 - 3), NumStr(1, 0 - 4),
      NumStr(5, 0 - 3), NumStr(25, 0 - 4), NumStr(10, 0 - 3), BadStr }

----------------------------------------------------------------------------
(* State *)

VARIABLES
    pc,         \* position of the run in main()
    Config,     \* class attributes of config.Config
    args,       \* the argparse namespace
    settings,   \* main's locals max_price, order_size, dry_run
    best_bid,   \* main's local best_bid
    tick_size,  \* main's local tick_size
    new_bid,    \* main's local new_bid
    price,      \* place_order's parameter price
    order_args, \* the OrderArgs place_order built
    calls,      \* how often each collaborator has been called
    raised,     \* the function whose exception main's handler caught
    out,        \* the messages printed
    exit_code   \* main's return value, -1 while it runs

vars == << pc, Config, args, settings, best_bid, tick_size, new_bid, price,
           order_args, calls, raised, out, exit_code >>

NoCalls ==
    [ initialize_client |-> 0, get_order_book |-> 0, get_tick_size |-> 0,
      place_order |-> 0, create_order |-> 0, post_order |-> 0 ]

called(f) == [calls EXCEPT ![f] = @ + 1]

Init ==
    /\ pc = "import"
    /\ Config = Unset
    /\ args = Unset
    /\ settings = Unset
    /\ best_bid = Unset
    /\ tick_size = Unset
    /\ new_bid = Unset
    /\ price = Unset
    /\ order_args = Unset
    /\ calls = NoCalls
    /\ raised = "none"
    /\ out = {}
    /\ exit_code = 0 - 1

----------------------------------------------------------------------------
(* Configuration *)

\* str.startswith("0x")
startswith0x(s) == Len(s) >= 2 /\ s[1] = "0" /\ s[2] = "x"

\* the class body of Config: every attribute read from the environment
import_config ==
    /\ pc = "import"
    /\ \E key \in EnvAddresses, funder \in EnvAddresses,
          mp \in EnvMaxPrices, sz \in EnvSizes, dr \in BOOLEAN :
          Config' = [ type |-> "Config", PRIVATE_KEY |-> key,
                      FUNDER_ADDRESS |-> funder, MAX_BID_PRICE |-> mp,
                      ORDER_SIZE |-> sz, DRY_RUN |-> dr ]
    /\ pc' = "parse_args"
    /\ UNCHANGED << args, settings, best_bid, tick_size, new_bid, price,
                    order_args, calls, raised, out, exit_code >>

\* parse_args: --dry-run is None (modelled FALSE) or True, --no-dry-run is
\* False or True, --max-price and --size are None or a float
parse_args ==
    /\ pc = "parse_args"
    /\ \E d \in BOOLEAN, nd \in BOOLEAN, mp \in ArgMaxPrices, sz \in ArgSizes :
          args' = [ type |-> "Namespace", dry_run |-> d, no_dry_run |-> nd,
                    max_price |-> mp, size |-> sz ]
    /\ pc' = "validate"
    /\ UNCHANGED << Config, settings, best_bid, tick_size, new_bid, price,
                    order_args, calls, raised, out, exit_code >>

\* Config.validate: the list of errors; it raises ValueError when not empty
Config_validate(cls) ==
    (IF Len(cls.PRIVATE_KEY) = 0
        THEN {"POLYMARKET_PRIVATE_KEY is not set"}
        ELSE IF ~startswith0x(cls.PRIVATE_KEY)
        THEN {"POLYMARKET_PRIVATE_KEY must start with '0x'"}
        ELSE {})
    \cup
    (IF Len(cls.FUNDER_ADDRESS) = 0
        THEN {"POLYMARKET_FUNDER_ADDRESS is not set"}
        ELSE IF ~startswith0x(cls.FUNDER_ADDRESS)
        THEN {"POLYMARKET_FUNDER_ADDRESS must start with '0x'"}
        ELSE {})
    \cup
    (IF ~Positive(cls.MAX_BID_PRICE)
        THEN {"MAX_BID_PRICE must be positive"} ELSE {})
    \cup
    (IF ~Positive(cls.ORDER_SIZE)
        THEN {"ORDER_SIZE must be positive"} ELSE {})

\* main, "Determine dry run mode"
resolve_dry_run(a, cls) ==
    IF a.no_dry_run THEN FALSE
    ELSE IF a.dry_run THEN TRUE
    ELSE cls.DRY_RUN

\* main from Config.validate() to the settings display
main_settings ==
    /\ pc = "validate"
    /\ IF Config_validate(Config) # {}
          THEN /\ out' = out \cup {"Configuration error"}
               /\ exit_code' = 1
               /\ pc' = "exit"
               /\ UNCHANGED settings
          ELSE /\ settings' =
                    [ type |-> "settings",
                      max_price |-> IF args.max_price # None
                                       THEN args.max_price
                                       ELSE Config.MAX_BID_PRICE,
                      order_size |-> IF args.size # None
                                        THEN args.size
                                        ELSE Config.ORDER_SIZE,
                      dry_run |-> resolve_dry_run(args, Config) ]
               /\ pc' = "initialize_client"
               /\ UNCHANGED << out, exit_code >>
    /\ UNCHANGED << Config, args, best_bid, tick_size, new_bid, price,
                    order_args, calls, raised >>

----------------------------------------------------------------------------
(* The run: main's try block *)

\* main's "except Exception" handler: report, return 1
main_except(f) ==
    /\ raised' = f
    /\ out' = out \cup {"Error"}
    /\ exit_code' = 1
    /\ pc' = "exit"

\* initialize_client: build the client and derive the API credentials; any
\* failure of the collaborator propagates to main
initialize_client ==
    /\ pc = "initialize_client"
    /\ calls' = called("initialize_client")
    /\ \/ /\ pc' = "get_best_bid"
          /\ UNCHANGED << raised, out, exit_code >>
       \/ main_except("initialize_client")
    /\ UNCHANGED << Config, args, settings, best_bid, tick_size, new_bid,
                    price, order_args >>

RECURSIVE MaxPrice(_, _)
\* max(float(bid.price) for bid in bids) over bids[1..n], n >= 1
MaxPrice(bids, n) ==
    IF n = 1 THEN float(bids[1])
    ELSE LET m == MaxPrice(bids, n - 1)
             x == float(bids[n])
         IN  IF Gt(x, m) THEN x ELSE m

\* get_best_bid: read the order book; 0.0 for an empty book, else the
\* highest bid price as a float.  The read may raise, and float() raises on
\* a price that is no number.
get_best_bid ==
    /\ pc = "get_best_bid"
    /\ calls' = called("get_order_book")
    /\ \/ \E bids \in Books :
             IF \E i \in 1..Len(bids) : ~bids[i].numeric
                THEN /\ main_except("get_best_bid")
                     /\ UNCHANGED best_bid
                ELSE /\ best_bid' = IF Len(bids) = 0 THEN F(0, 0)
                                    ELSE MaxPrice(bids, Len(bids))
                     /\ pc' = "get_tick_size"
                     /\ UNCHANGED << raised, out, exit_code >>
       \/ /\ main_except("get_best_bid")
          /\ UNCHANGED best_bid
    /\ UNCHANGED << Config, args, settings, tick_size, new_bid, price,
                    order_args >>

\* get_tick_size that falls back to a tick of 0.01 when the read or the parse
\* fails
get_tick_size_FallbackTick ==
    /\ pc = "get_tick_size"
    /\ calls' = called("get_tick_size")
    /\ \/ \E tick_size_str \in TickSizeStrs :
             IF ~tick_size_str.numeric
                THEN /\ tick_size' = Dec(1, 0 - 2)
                     /\ raised' = "get_tick_size"
                     /\ pc' = "calculate_new_bid"
                     /\ UNCHANGED << out, exit_code >>
                ELSE /\ tick_size' = Decimal(tick_size_str)
                     /\ pc' = "calculate_new_bid"
                     /\ UNCHANGED << raised, out, exit_code >>
       \/ /\ tick_size' = Dec(1, 0 - 2)
          /\ raised' = "get_tick_size"
          /\ pc' = "calculate_new_bid"
          /\ UNCHANGED << out, exit_code >>
    /\ UNCHANGED << Config, args, settings, best_bid, new_bid, price,
                    order_args >>

\* get_tick_size: read the tick size string and parse it as a Decimal.  The
\* read may raise, and Decimal() raises on a string that is no number.
get_tick_size ==
    /\ pc = "get_tick_size"
    /\ calls' = called("get_tick_size")
    /\ \/ \E tick_size_str \in TickSizeStrs :
             IF ~tick_size_str.numeric
                THEN /\ main_except("get_tick_size")
                     /\ UNCHANGED tick_size
                ELSE /\ tick_size' = Decimal(tick_size_str)
                     /\ pc' = "calculate_new_bid"
                     /\ UNCHANGED << raised, out, exit_code >>
       \/ /\ main_except("get_tick_size")
          /\ UNCHANGED tick_size
    /\ UNCHANGED << Config, args, settings, best_bid, new_bid, price,
                    order_args >>

\* main, "Calculate new bid": no order and exit status 0 when there is none
main_calculate ==
    /\ pc = "calculate_new_bid"
    /\ new_bid' = calculate_new_bid(best_bid, tick_size, settings.max_price)
    /\ IF new_bid' = None
          THEN /\ out' = out \cup {"No order placed."}
               /\ exit_code' = 0
               /\ pc' = "exit"
          ELSE /\ pc' = "place_order"
               /\ UNCHANGED << out, exit_code >>
    /\ UNCHANGED << Config, args, settings, best_bid, tick_size, price,
                    order_args, calls, raised >>

\* place_order that builds and signs the order whatever dry_run says
place_order_IgnoresDryRun ==
    /\ pc = "place_order"
    /\ calls' = called("place_order")
    /\ price' = new_bid
    /\ order_args' = [ type |-> "OrderArgs", price |-> new_bid,
                       size |-> settings.order_size, side |-> "BUY" ]
    /\ pc' = "create_order"
    /\ UNCHANGED << out, exit_code >>
    /\ UNCHANGED << Config, args, settings, best_bid, tick_size, new_bid,
                    raised >>

\* place_order up to the OrderArgs: in dry-run only print and return None
\* (main then completes with status 0), else build the order
place_order ==
    /\ pc = "place_order"
    /\ calls' = called("place_order")
    /\ price' = new_bid
    /\ IF settings.dry_run
          THEN /\ out' = out \cup {"[DRY RUN] Would place order",
                                   "Bot execution complete."}
               /\ exit_code' = 0
               /\ pc' = "exit"
               /\ UNCHANGED order_args
          ELSE /\ order_args' = [ type |-> "OrderArgs", price |-> new_bid,
                                  size |-> settings.order_size,
                                  side |-> "BUY" ]
               /\ pc' = "create_order"
               /\ UNCHANGED << out, exit_code >>
    /\ UNCHANGED << Config, args, settings, best_bid, tick_size, new_bid,
                    raised >>

\* place_order, "Signing order...": client.create_order signs or raises
create_order ==
    /\ pc = "create_order"
    /\ calls' = called("create_order")
    /\ \/ /\ pc' = "post_order"
          /\ UNCHANGED << raised, out, exit_code >>
       \/ main_except("create_order")
    /\ UNCHANGED << Config, args, settings, best_bid, tick_size, new_bid,
                    price, order_args >>

\* post_order that submits again after a failed submission
post_order_Retry ==
    /\ pc = "post_order"
    /\ calls' = called("post_order")
    /\ \/ /\ out' = out \cup {"Order submitted successfully!",
                              "Bot execution complete."}
          /\ exit_code' = 0
          /\ pc' = "exit"
          /\ UNCHANGED raised
       \/ /\ raised' = "post_order"
          /\ UNCHANGED << pc, out, exit_code >>
    /\ UNCHANGED << Config, args, settings, best_bid, tick_size, new_bid,
                    price, order_args >>

\* place_order, "Submitting order...": client.post_order submits or raises;
\* on success main completes with status 0
post_order ==
    /\ pc = "post_order"
    /\ calls' = called("post_order")
    /\ \/ /\ out' = out \cup {"Order submitted successfully!",
                              "Bot execution complete."}
          /\ exit_code' = 0
          /\ pc' = "exit"
          /\ UNCHANGED raised
       \/ main_except("post_order")
    /\ UNCHANGED << Config, args, settings, best_bid, tick_size, new_bid,
                    price, order_args >>

Next ==
    \/ import_config
    \/ parse_args
    \/ main_settings
    \/ initialize_client
    \/ get_best_bid
    \/ get_tick_size
    \/ main_calculate
    \/ place_order
    \/ create_order
    \/ post_order

Spec == Init /\ [][Next]_vars

----------------------------------------------------------------------------
(* Properties *)

\* calculate_new_bid has returned (a price or None)
Calculated == new_bid # Unset

\* place_order has been called with a price
Placed == calls.place_order > 0

\* C1: a price that calculate_new_bid returns, and so every price main hands
\* to place_order and every price of a built order, is at most max_price.
C1_CeilingNeverExceeded ==
    /\ new_bid.type = "float" => Le(new_bid, settings.max_price)
    /\ Placed => Le(price, settings.max_price)
    /\ order_args # Unset => Le(order_args.price, settings.max_price)

\* C1 witness: an order is handed to place_order at exactly the ceiling, from
\* a best bid that is not on the tick grid (0.0495 + 0.001 rounds to 0.05).
C1_Witness ==
    /\ Placed
    /\ price = settings.max_price
    /\ ~IsMultiple(best_bid, tick_size)

\* C2 as stated: for a tick-aligned best_bid below max_price the calculator
\* returns a price above best_bid, at most best_bid + tick_size, on the grid.
C2_Original ==
    (Calculated /\ IsMultiple(best_bid, tick_size)
                /\ ~Ge(best_bid, settings.max_price))
    => /\ new_bid.type = "float"
       /\ Gt(new_bid, best_bid)
       /\ Le(new_bid, DecAdd(best_bid, tick_size))
       /\ IsMultiple(new_bid, tick_size)

\* C2 amended: for a tick-aligned best_bid with best_bid + tick_size at most
\* max_price the calculator returns exactly best_bid + tick_size, which is
\* above best_bid and on the tick grid; for a tick-aligned best_bid below
\* max_price with best_bid + tick_size above max_price it returns None.
C2_Amended ==
    (Calculated /\ IsMultiple(best_bid, tick_size))
    => /\ Le(DecAdd(best_bid, tick_size), settings.max_price)
          => /\ new_bid = float(DecAdd(best_bid, tick_size))
             /\ Gt(new_bid, best_bid)
             /\ IsMultiple(new_bid, tick_size)
       /\ Gt(DecAdd(best_bid, tick_size), settings.max_price)
          => new_bid = None

\* C2 witness: scenario C, best_bid 0.049 and tick 0.001 under a ceiling of
\* 0.05 give 0.05.
C2_Witness ==
    /\ Calculated
    /\ best_bid = F(49, 0 - 3)
    /\ tick_size = Dec(1, 0 - 3)
    /\ settings.max_price = F(5, 0 - 2)
    /\ new_bid = F(5, 0 - 2)

\* C3 as stated: every price handed to place_order is a multiple of tick_size,
\* at most max_price and positive, for every tick size and every best bid.
C3_OrderInvariant ==
    Placed => /\ IsMultiple(price, tick_size)
              /\ Le(price, settings.max_price)
              /\ Positive(price)

\* C4: when best_bid >= max_price the calculator returns None, main prints
\* that no order was placed, never calls place_order and exits with status 0.
C4_NoBidAtCeiling ==
    (Calculated /\ Ge(best_bid, settings.max_price))
    => /\ new_bid = None
       /\ "No order placed." \in out
       /\ calls.place_order = 0
       /\ calls.create_order = 0
       /\ calls.post_order = 0
       /\ pc = "exit"
       /\ exit_code = 0

\* C4 witness: scenario D, the best bid sits exactly at a positive ceiling.
C4_Witness ==
    /\ Calculated
    /\ Positive(settings.max_price)
    /\ best_bid = settings.max_price
    /\ exit_code = 0

\* C5: in a run resolved to dry-run neither create_order nor post_order is
\* ever called and no order is built.
C5_DryRunSubmitsNothing ==
    (settings # Unset /\ settings.dry_run)
    => /\ calls.create_order = 0
       /\ calls.post_order = 0
       /\ order_args = Unset

\* C5 witness: a dry run went through place_order with a decided price and
\* completed.
C5_Witness ==
    /\ settings # Unset
    /\ settings.dry_run
    /\ Placed
    /\ price.type = "float"
    /\ pc = "exit"

\* C6 as stated: an order is submitted only in a run given --no-dry-run, and
\* a run without that flag resolves to dry-run whatever DRY_RUN says.
C6_LiveOnlyByFlag ==
    /\ calls.post_order > 0 => args.no_dry_run
    /\ (settings # Unset /\ ~args.no_dry_run) => settings.dry_run

\* C7: create_order and post_order are each called at most once in a run, and
\* when one of them fails the run is over with a non-zero exit status.
C7_AtMostOneSubmission ==
    /\ calls.create_order <= 1
    /\ calls.post_order <= 1
    /\ raised \in {"create_order", "post_order"}
       => /\ pc = "exit"
          /\ exit_code = 1
          /\ "Order submitted successfully!" \notin out

\* C7 witness: post_order was called once, failed, and the run ended with 1.
C7_Witness ==
    /\ raised = "post_order"
    /\ calls.post_order = 1
    /\ exit_code = 1

\* the ceiling and the size the run uses, whatever their origin
EffectiveMaxPrice ==
    IF args.max_price # None THEN args.max_price ELSE Config.MAX_BID_PRICE

EffectiveSize ==
    IF args.size # None THEN args.size ELSE Config.ORDER_SIZE

\* C8 as stated: bad credentials, or a ceiling or size in use that is not
\* positive, end the run as a configuration error before any network call.
C8_RejectedBeforeNetwork ==
    (/\ args # Unset
     /\ \/ ~startswith0x(Config.PRIVATE_KEY)
        \/ ~startswith0x(Config.FUNDER_ADDRESS)
        \/ ~Positive(EffectiveMaxPrice)
        \/ ~Positive(EffectiveSize))
    => /\ calls = NoCalls
       /\ order_args = Unset
       /\ pc = "exit" => ("Configuration error" \in out /\ exit_code = 1)

\* C9: when the order-book read or the tick-size read or parse fails, the
\* calculator and place_order are never reached, nothing is submitted and the
\* run exits non-zero; an order is submitted only after both reads succeeded
\* and the calculator returned a price.
C9_MarketDataFailureIsFatal ==
    /\ raised \in {"get_best_bid", "get_tick_size"}
       => /\ ~Calculated
          /\ calls.place_order = 0
          /\ calls.create_order = 0
          /\ calls.post_order = 0
          /\ pc = "exit"
          /\ exit_code = 1
    /\ (calls.create_order > 0 \/ calls.post_order > 0)
       => /\ best_bid.type = "float"
          /\ tick_size.type = "Decimal"
          /\ new_bid.type = "float"
          /\ raised \notin {"get_best_bid", "get_tick_size"}

\* C9 witness: the order book was read, the tick-size step failed, and the run
\* ended with status 1 in a live run.
C9_Witness ==
    /\ raised = "get_tick_size"
    /\ best_bid.type = "float"
    /\ ~settings.dry_run
    /\ exit_code = 1

\* C10 as stated: from the observed best bid to the decided price every price
\* is held in an exact decimal type, never in a binary float.
C10_ExactDecimalPath ==
    /\ best_bid.type # "float"
    /\ new_bid.type # "float"
    /\ price.type # "float"

====
